---------------------------- MODULE Spec2Model ----------------------------
(***************************************************************************)
(* Model of src/main.py: a chat bot that parses driver shift reports       *)
(* (parse_report), stores every parsed report (save_report) and answers    *)
(* with a rendering of it (format_report, handle_message).                 *)
(*                                                                         *)
(* Text.  A report text is a sequence of symbols.  Digits, ".", ":" and    *)
(* "-" are single characters; "SP" is a space and "NL" a line break (the   *)
(* two whitespace characters of the alphabet); every Cyrillic word of a    *)
(* label is one symbol, written in Latin letters ("Nachalo" for            *)
(* "Начало", "TS" for "ТС", ...); "Gazel" is a word that is no label.       *)
(*                                                                         *)
(* Numbers.  Python floats are modelled as exact rationals.  work_hours    *)
(* and overtime are held in sixtieths of an hour (8.5 h is 510), because   *)
(* (end - start)/3600 s and hours + minutes/60 are both whole numbers of   *)
(* minutes; total_km and km_mkad are whole numbers.                        *)
(*                                                                         *)
(* Python's None is the empty sequence, a value v is <<v>>.                *)
(***************************************************************************)
EXTENDS Integers, Sequences, FiniteSets, TLC

VARIABLES
    store,      \* rows of table reports, in insertion order
    handlers,   \* per sender: the running handle_message invocation
    outbox,     \* per sender: the replies delivered, in order
    handled     \* history: the texts handle_message has processed, in order

vars == <<store, handlers, outbox, handled>>

None == <<>>
Some(v) == <<v>>

(***************************************************************************)
(* Characters                                                              *)
(***************************************************************************)
DigitChars == <<"0", "1", "2", "3", "4", "5", "6", "7", "8", "9">>

IsDigit(c) == c \in {"0", "1", "2", "3", "4", "5", "6", "7", "8", "9"}

DigitVal(c) == (CHOOSE k \in 1..10 : DigitChars[k] = c) - 1

\* \s of the regular expressions, over the alphabet of the model
IsSpace(c) == c \in {"SP", "NL"}

\* the character at position i, "EOT" past the end of the text
At(t, i) == IF i >= 1 /\ i <= Len(t) THEN t[i] ELSE "EOT"

\* float(s) / int(s) of a string of digits
RECURSIVE ToNumber(_)
ToNumber(ds) ==
    IF ds = <<>> THEN 0
    ELSE 10 * ToNumber(SubSeq(ds, 1, Len(ds) - 1)) + DigitVal(ds[Len(ds)])

\* "%02d" and "%04d"
Fmt2(n) == <<DigitChars[((n \div 10) % 10) + 1], DigitChars[(n % 10) + 1]>>
Fmt4(n) == Fmt2(n \div 100) \o Fmt2(n % 100)

(***************************************************************************)
(* Regular expressions (re.search: the leftmost position where the         *)
(* pattern matches, alternatives tried in the order written, greedy        *)
(* repetition with backtracking).  A match holds grp1, the text of group   *)
(* 1, and grp2, None when group 2 took no part and Some(its text) else.    *)
(***************************************************************************)
NoMatch == [found |-> FALSE, grp1 |-> None, grp2 |-> None]
Found(g1, g2) == [found |-> TRUE, grp1 |-> g1, grp2 |-> g2]

\* the position after literal lit when it stands at position i, else 0
AfterLiteral(t, i, lit) ==
    IF /\ i + Len(lit) - 1 <= Len(t)
       /\ \A k \in 1..Len(lit) : t[i + k - 1] = lit[k]
    THEN i + Len(lit) ELSE 0

\* the position after the longest run of whitespace / of digits from i
RECURSIVE AfterSpaces(_, _)
AfterSpaces(t, i) == IF IsSpace(At(t, i)) THEN AfterSpaces(t, i + 1) ELSE i

RECURSIVE AfterDigits(_, _)
AfterDigits(t, i) == IF IsDigit(At(t, i)) THEN AfterDigits(t, i + 1) ELSE i

\* the position after the longest run of characters other than "\n" from i
RECURSIVE AfterLine(_, _)
AfterLine(t, i) ==
    IF At(t, i) \in {"NL", "EOT"} THEN i ELSE AfterLine(t, i + 1)

\* \d{2}:\d{2} at position i
TimeShapeAt(t, i) ==
    /\ IsDigit(At(t, i)) /\ IsDigit(At(t, i + 1))
    /\ At(t, i + 2) = ":"
    /\ IsDigit(At(t, i + 3)) /\ IsDigit(At(t, i + 4))

\* DATE_PATTERN = (\d{2}\.\d{2}\.\d{4}), at position i
DATE_PATTERN_At(t, i) ==
    IF /\ IsDigit(At(t, i)) /\ IsDigit(At(t, i + 1)) /\ At(t, i + 2) = "."
       /\ IsDigit(At(t, i + 3)) /\ IsDigit(At(t, i + 4)) /\ At(t, i + 5) = "."
       /\ \A k \in 6..9 : IsDigit(At(t, i + k))
    THEN Found(SubSeq(t, i, i + 9), None) ELSE NoMatch

\* VEHICLE_PATTERN = (?:ТС|Смена|Наименование ТС)\s+([^\n]+)
VEHICLE_LABELS == << <<"TS">>, <<"Smena">>, <<"Naimenovanie", "SP", "TS">> >>

\* \s+([^\n]+) from position e: \s+ takes the whole run of whitespace and
\* gives characters back until one that is not "\n" follows it
VEHICLE_Rest(t, e) ==
    LET w  == AfterSpaces(t, e)
        ks == {k \in (e + 1)..w : k <= Len(t) /\ t[k] # "NL"}
        k  == CHOOSE x \in ks : \A y \in ks : y <= x
    IN IF ks = {} THEN NoMatch
       ELSE Found(SubSeq(t, k, AfterLine(t, k) - 1), None)

\* \s+(\d{2}:\d{2}) from position e
TIME_Rest(t, e) ==
    LET w == AfterSpaces(t, e)
    IN IF w > e /\ TimeShapeAt(t, w)
       THEN Found(SubSeq(t, w, w + 4), None) ELSE NoMatch

\* START_PATTERN = (?:Начало смены|Начало)\s+(\d{2}:\d{2})
START_LABELS == << <<"Nachalo", "SP", "smeny">>, <<"Nachalo">> >>

\* END_PATTERN = (?:Окончание смены|Конец смены|Окончание)\s+(\d{2}:\d{2})
END_LABELS ==
    << <<"Okonchanie", "SP", "smeny">>, <<"Konec", "SP", "smeny">>,
       <<"Okonchanie">> >>

\* OVERTIME_PATTERN = (?:Переработка|Переработки)\s+(\d+)(?:\s*(\d+))?
OVERTIME_LABELS == << <<"Pererabotka">>, <<"Pererabotki">> >>

\* \s+(\d+)(?:\s*(\d+))? from position e: the optional group is taken
\* whenever digits follow the hours after any whitespace, line breaks included
OVERTIME_Rest(t, e) ==
    LET w  == AfterSpaces(t, e)
        d  == AfterDigits(t, w)
        w2 == AfterSpaces(t, d)
        d2 == AfterDigits(t, w2)
    IN IF w > e /\ d > w
       THEN Found(SubSeq(t, w, d - 1),
                  IF d2 > w2 THEN Some(SubSeq(t, w2, d2 - 1)) ELSE None)
       ELSE NoMatch

\* \s+(\d+) from position e
NUMBER_Rest(t, e) ==
    LET w == AfterSpaces(t, e)
        d == AfterDigits(t, w)
    IN IF w > e /\ d > w THEN Found(SubSeq(t, w, d - 1), None) ELSE NoMatch

\* KM_PATTERN = (?:Общий пробег|Пробег общий)\s+(\d+)
KM_LABELS == << <<"Obshchiy", "SP", "probeg">>, <<"Probeg", "SP", "obshchiy">> >>

\* as KM_MKAD_LABELS, any distance line that starts with "Пробег" taken
KM_MKAD_LABELS_loose ==
    << <<"Probeg", "SP", "za", "SP", "MKAD">>, <<"Probeg", "SP", "obshchiy">> >>

\* KM_MKAD_PATTERN = (?:Пробег за МКАД)\s+(\d+)
KM_MKAD_LABELS == << <<"Probeg", "SP", "za", "SP", "MKAD">> >>

\* the labels of a pattern, and what follows the label
LabelsOf(pattern) ==
    CASE pattern = "DATE"     -> <<>>
      [] pattern = "VEHICLE"  -> VEHICLE_LABELS
      [] pattern = "START"    -> START_LABELS
      [] pattern = "END"      -> END_LABELS
      [] pattern = "OVERTIME" -> OVERTIME_LABELS
      [] pattern = "KM"       -> KM_LABELS
      [] pattern = "KM_MKAD"  -> KM_MKAD_LABELS

RestAt(pattern, t, e) ==
    CASE pattern = "VEHICLE"            -> VEHICLE_Rest(t, e)
      [] pattern \in {"START", "END"}   -> TIME_Rest(t, e)
      [] pattern = "OVERTIME"           -> OVERTIME_Rest(t, e)
      [] pattern \in {"KM", "KM_MKAD"}  -> NUMBER_Rest(t, e)

\* (?:A|B|C) at position i: the first alternative, in the order written,
\* after which the rest of the pattern matches
RECURSIVE FirstAlternative(_, _, _, _)
FirstAlternative(pattern, t, i, labels) ==
    IF labels = <<>> THEN NoMatch
    ELSE LET Try(m) == IF m.found THEN m
                       ELSE FirstAlternative(pattern, t, i, Tail(labels))
             After(e) == Try(IF e = 0 THEN NoMatch ELSE RestAt(pattern, t, e))
         IN After(AfterLiteral(t, i, Head(labels)))

MatchAt(pattern, labels, t, i) ==
    IF labels = <<>> THEN DATE_PATTERN_At(t, i)
    ELSE FirstAlternative(pattern, t, i, labels)

\* re.search: the match at the leftmost position that has one
RECURSIVE SearchFrom(_, _, _, _)
SearchFrom(pattern, labels, t, i) ==
    IF i > Len(t) THEN NoMatch
    ELSE LET Try(m) == IF m.found THEN m
                       ELSE SearchFrom(pattern, labels, t, i + 1)
         IN Try(MatchAt(pattern, labels, t, i))

Search(pattern, t) == SearchFrom(pattern, LabelsOf(pattern), t, 1)

DATE_PATTERN(t)     == Search("DATE", t)
VEHICLE_PATTERN(t)  == Search("VEHICLE", t)
START_PATTERN(t)    == Search("START", t)
END_PATTERN(t)      == Search("END", t)
OVERTIME_PATTERN(t) == Search("OVERTIME", t)
KM_PATTERN(t)       == Search("KM", t)
KM_MKAD_PATTERN(t)  == Search("KM_MKAD", t)

(***************************************************************************)
(* datetime.strptime on the captured text, str() of the results            *)
(***************************************************************************)
IsLeap(y) == (y % 4 = 0 /\ y % 100 # 0) \/ y % 400 = 0

DaysInMonth(y, m) ==
    IF m = 2 THEN (IF IsLeap(y) THEN 29 ELSE 28)
    ELSE IF m \in {4, 6, 9, 11} THEN 30 ELSE 31

\* datetime.strptime(s, "%d.%m.%Y").date() for s of shape dd.mm.yyyy:
\* the date, or the message of the ValueError raised
StrptimeDate(s) ==
    LET d == ToNumber(SubSeq(s, 1, 2))
        m == ToNumber(SubSeq(s, 4, 5))
        y == ToNumber(SubSeq(s, 7, 10))
    IN IF d < 1 \/ d > 31 \/ m < 1 \/ m > 12
       THEN [ok |-> FALSE, msg |-> "time data does not match format '%d.%m.%Y'"]
       ELSE IF y < 1
       THEN [ok |-> FALSE, msg |-> "year 0 is out of range"]
       ELSE IF d > DaysInMonth(y, m)
       THEN [ok |-> FALSE, msg |-> "day is out of range for month"]
       ELSE [ok |-> TRUE, year |-> y, month |-> m, day |-> d]

\* as StrptimeTime, the two numbers taken without a range check
StrptimeTime_lenient(s) ==
    [ok |-> TRUE, hour |-> ToNumber(SubSeq(s, 1, 2)),
     minute |-> ToNumber(SubSeq(s, 4, 5))]

\* datetime.strptime(s, "%H:%M").time() for s of shape hh:mm
StrptimeTime(s) ==
    LET h == ToNumber(SubSeq(s, 1, 2))
        m == ToNumber(SubSeq(s, 4, 5))
    IN IF h > 23
       THEN [ok |-> FALSE, msg |-> "time data does not match format '%H:%M'"]
       ELSE IF m > 59
       THEN [ok |-> FALSE, msg |-> "unconverted data remains"]
       ELSE [ok |-> TRUE, hour |-> h, minute |-> m]

\* str(date): YYYY-MM-DD
StrDate(d) == Fmt4(d.year) \o <<"-">> \o Fmt2(d.month) \o <<"-">> \o Fmt2(d.day)

\* str(time): HH:MM:SS
StrTime(tm) == Fmt2(tm.hour) \o <<":">> \o Fmt2(tm.minute) \o <<":", "0", "0">>

\* str.strip()
RECURSIVE Strip(_)
Strip(s) ==
    IF s = <<>> THEN s
    ELSE IF IsSpace(Head(s)) THEN Strip(Tail(s))
    ELSE IF IsSpace(s[Len(s)]) THEN Strip(SubSeq(s, 1, Len(s) - 1))
    ELSE s

(***************************************************************************)
(* parse_report: <<report, error>>, one of them None                       *)
(***************************************************************************)
\* as Failure, the error text dropped
FailureSilent(msg) == <<None, None>>

Failure(msg) == <<None, Some(msg)>>

\* the messages of lines 45-67, in Latin letters
MSG_NO_DATE     == "Ne naydena data"                \* "Не найдена дата"
MSG_NO_VEHICLE  == "Ne naydeno naimenovanie TS"     \* "Не найдено наименование ТС"
MSG_NO_START    == "Ne naydeno vremya nachala"      \* "Не найдено время начала"
MSG_NO_END      == "Ne naydeno vremya okonchaniya"  \* "Не найдено время окончания"
MSG_NO_OVERTIME == "Ne naydena pererabotka"         \* "Не найдена переработка"
MSG_NO_KM       == "Ne nayden obshchiy probeg"      \* "Не найден общий пробег"

\* as BuildReport, a shift that ends before it starts taken to end on the
\* next day
BuildReport_rollover(report_date, vehicle, start_time, end_time, overtime, total_km, km_mkad) ==
    LET minutes == (end_time.hour * 60 + end_time.minute)
                       - (start_time.hour * 60 + start_time.minute)
    IN [date       |-> StrDate(report_date),
        vehicle    |-> vehicle,
        start_time |-> StrTime(start_time),
        end_time   |-> StrTime(end_time),
        work_hours |-> IF minutes < 0 THEN minutes + 1440 ELSE minutes,
        overtime   |-> overtime,
        total_km   |-> total_km,
        km_mkad    |-> km_mkad]

\* lines 71-83: the record, work_hours = (end_dt - start_dt) / 1 h
BuildReport(report_date, vehicle, start_time, end_time, overtime, total_km, km_mkad) ==
    [date       |-> StrDate(report_date),
     vehicle    |-> vehicle,
     start_time |-> StrTime(start_time),
     end_time   |-> StrTime(end_time),
     work_hours |-> (end_time.hour * 60 + end_time.minute)
                        - (start_time.hour * 60 + start_time.minute),
     overtime   |-> overtime,
     total_km   |-> total_km,
     km_mkad    |-> km_mkad]

\* lines 59-64: hours + minutes / 60, in sixtieths of an hour
Overtime(overtime_match) ==
    LET hours   == ToNumber(overtime_match.grp1)
        minutes == IF overtime_match.grp2 # None
                   THEN ToNumber(overtime_match.grp2[1]) ELSE 0
    IN 60 * hours + minutes

\* lines 65-83
parse_km(report_text, report_date, vehicle, start_time, end_time, overtime, km_match) ==
    IF ~km_match.found THEN Failure(MSG_NO_KM)
    ELSE LET Build(km_mkad_match) ==
                 <<Some(BuildReport(report_date, vehicle, start_time, end_time,
                                    overtime, ToNumber(km_match.grp1),
                                    IF km_mkad_match.found
                                    THEN ToNumber(km_mkad_match.grp1) ELSE 0)),
                   None>>
         IN Build(KM_MKAD_PATTERN(report_text))

\* lines 59-64
parse_overtime(report_text, report_date, vehicle, start_time, end_time, overtime_match) ==
    IF ~overtime_match.found THEN Failure(MSG_NO_OVERTIME)
    ELSE parse_km(report_text, report_date, vehicle, start_time, end_time,
                  Overtime(overtime_match), KM_PATTERN(report_text))

\* line 58
parse_end_time(report_text, report_date, vehicle, start_time, end_time) ==
    IF ~end_time.ok THEN Failure(end_time.msg)
    ELSE parse_overtime(report_text, report_date, vehicle, start_time, end_time,
                        OVERTIME_PATTERN(report_text))

\* lines 55-57
parse_end(report_text, report_date, vehicle, start_time, end_match) ==
    IF ~end_match.found THEN Failure(MSG_NO_END)
    ELSE parse_end_time(report_text, report_date, vehicle, start_time,
                        StrptimeTime(end_match.grp1))

\* line 54
parse_start_time(report_text, report_date, vehicle, start_time) ==
    IF ~start_time.ok THEN Failure(start_time.msg)
    ELSE parse_end(report_text, report_date, vehicle, start_time,
                   END_PATTERN(report_text))

\* lines 51-53
parse_start(report_text, report_date, vehicle, start_match) ==
    IF ~start_match.found THEN Failure(MSG_NO_START)
    ELSE parse_start_time(report_text, report_date, vehicle,
                          StrptimeTime(start_match.grp1))

\* as parse_vehicle, without the check of line 48
parse_vehicle_unchecked(report_text, report_date, vehicle_match) ==
    parse_start(report_text, report_date, Strip(vehicle_match.grp1),
                START_PATTERN(report_text))

\* lines 47-50
parse_vehicle(report_text, report_date, vehicle_match) ==
    IF ~vehicle_match.found THEN Failure(MSG_NO_VEHICLE)
    ELSE parse_start(report_text, report_date, Strip(vehicle_match.grp1),
                     START_PATTERN(report_text))

\* line 46; a ValueError is caught at lines 84-85 and its text returned
parse_date(report_text, report_date) ==
    IF ~report_date.ok THEN Failure(report_date.msg)
    ELSE parse_vehicle(report_text, report_date, VEHICLE_PATTERN(report_text))

\* lines 43-45
parse_date_match(report_text, date_match) ==
    IF ~date_match.found THEN Failure(MSG_NO_DATE)
    ELSE parse_date(report_text, StrptimeDate(date_match.grp1))

\* the steps of parse_report in the order of the code; each step is handed
\* the values the steps before it have computed
parse_report(report_text) ==
    parse_date_match(report_text, DATE_PATTERN(report_text))

(***************************************************************************)
(* save_report, format_report                                              *)
(***************************************************************************)
\* the row save_report inserts
NewRow(rows, report_data) ==
           [id         |-> (IF rows = <<>> THEN 0 ELSE rows[Len(rows)].id) + 1,
            date       |-> report_data.date,
            vehicle    |-> report_data.vehicle,
            start_time |-> report_data.start_time,
            end_time   |-> report_data.end_time,
            work_hours |-> report_data.work_hours,
            overtime   |-> report_data.overtime,
            total_km   |-> report_data.total_km,
            km_mkad    |-> report_data.km_mkad]

\* as save_report, a report equal to a stored one not inserted again
save_report_dedup(rows, report_data) ==
    IF \E i \in 1..Len(rows) :
          [NewRow(rows, report_data) EXCEPT !.id = rows[i].id] = rows[i]
    THEN rows
    ELSE Append(rows, NewRow(rows, report_data))

\* INSERT INTO reports: one more row, id INTEGER PRIMARY KEY AUTOINCREMENT
save_report(rows, report_data) ==
    Append(rows,
           [id         |-> (IF rows = <<>> THEN 0 ELSE rows[Len(rows)].id) + 1,
            date       |-> report_data.date,
            vehicle    |-> report_data.vehicle,
            start_time |-> report_data.start_time,
            end_time   |-> report_data.end_time,
            work_hours |-> report_data.work_hours,
            overtime   |-> report_data.overtime,
            total_km   |-> report_data.total_km,
            km_mkad    |-> report_data.km_mkad])

\* "{:.2f}" of n sixtieths, in hundredths: n / 60 is never half-way between
\* two hundredths, so the nearest one is floor(100 n / 60 + 1/2)
Format2f(n) == (10 * n + 3) \div 6

format_report(report) ==
    [date       |-> report.date,
     vehicle    |-> report.vehicle,
     shift      |-> <<report.start_time, report.end_time>>,
     work_hours |-> Format2f(report.work_hours),
     overtime   |-> Format2f(report.overtime),
     total_km   |-> report.total_km,
     km_mkad    |-> report.km_mkad]

(***************************************************************************)
(* Messages.  An update is the sequence of the lines of its text; a line   *)
(* is [f, lab, x, y, z, gap]: the field, which of its labels is written,   *)
(* its numbers, and the number of spaces between label and value.          *)
(***************************************************************************)
Line(f, lab, x, y, z, gap) ==
    [f |-> f, lab |-> lab, x |-> x, y |-> y, z |-> z, gap |-> gap]

DateLine(d, m, y)       == Line("date", 1, d, m, y, 1)
VehicleLine(lab, gap)   == Line("vehicle", lab, 1, 0, 0, gap)
BlankVehicle(lab, gap)  == Line("vehicle", lab, 0, 0, 0, gap)
StartLine(lab, h, m)    == Line("start", lab, h, m, 0, 1)
EndLine(lab, h, m)      == Line("end", lab, h, m, 0, 1)
OvertimeLine(lab, h, m) == Line("overtime", lab, h, m, 0, 1)   \* m = -1: no minutes
KmLine(lab, v)          == Line("km", lab, v, 0, 0, 1)
MkadLine(v)             == Line("mkad", 1, v, 0, 0, 1)

\* str(n) of a natural number
RECURSIVE Decimal(_)
Decimal(n) ==
    IF n < 10 THEN <<DigitChars[n + 1]>>
    ELSE Decimal(n \div 10) \o <<DigitChars[(n % 10) + 1]>>

Spaces(n) == [i \in 1..n |-> "SP"]

\* the text of a line, as section 6 of the specification writes it
LineText(l) ==
    CASE l.f = "date" ->
           Fmt2(l.x) \o <<".">> \o Fmt2(l.y) \o <<".">> \o Fmt4(l.z)
      [] l.f = "vehicle" ->
           VEHICLE_LABELS[l.lab] \o Spaces(l.gap)
               \o (IF l.x = 1 THEN <<"Gazel">> ELSE <<>>)
      [] l.f = "start" ->
           START_LABELS[l.lab] \o Spaces(l.gap)
               \o Fmt2(l.x) \o <<":">> \o Fmt2(l.y)
      [] l.f = "end" ->
           END_LABELS[l.lab] \o Spaces(l.gap)
               \o Fmt2(l.x) \o <<":">> \o Fmt2(l.y)
      [] l.f = "overtime" ->
           OVERTIME_LABELS[l.lab] \o Spaces(l.gap) \o Decimal(l.x)
               \o (IF l.y >= 0 THEN <<"SP">> \o Decimal(l.y) ELSE <<>>)
      [] l.f = "km" ->
           KM_LABELS[l.lab] \o Spaces(l.gap) \o Decimal(l.x)
      [] l.f = "mkad" ->
           KM_MKAD_LABELS[1] \o Spaces(l.gap) \o Decimal(l.x)

\* update.message.text: the lines joined by line breaks
RECURSIVE MessageText(_)
MessageText(u) ==
    IF u = <<>> THEN <<>>
    ELSE IF Len(u) = 1 THEN LineText(u[1])
    ELSE LineText(u[1]) \o <<"NL">> \o MessageText(Tail(u))

(***************************************************************************)
(* The inputs                                                              *)
(***************************************************************************)
MaxGap  == 2    \* at most this many spaces between a label and its value
MaxMsgs == 3    \* the bot receives at most this many messages

\* every ordering of a set of lines
RECURSIVE OrderingsOf(_)
OrderingsOf(S) ==
    IF S = {} THEN {<<>>}
    ELSE UNION {{<<l>> \o rest : rest \in OrderingsOf(S \ {l})} : l \in S}

\* every ordering of the lines of u
Orderings(u) == OrderingsOf({u[i] : i \in 1..Len(u)})

Optional(S) == {<<>>} \cup {<<l>> : l \in S}

\* a report as section 6 of the specification shows it
GoodDate     == DateLine(15, 3, 2024)
GoodVehicle  == VehicleLine(1, 1)
GoodStart    == StartLine(1, 8, 0)
GoodEnd      == EndLine(1, 16, 30)
GoodKm       == KmLine(1, 120)
GoodMkad     == MkadLine(40)
HoursOnly    == OvertimeLine(1, 2, -1)
HoursMinutes == OvertimeLine(1, 2, 30)

\* the documented order; each field absent, well formed, or of the right
\* shape with a value that does not convert
PresenceInputs ==
    {a \o b \o c \o d \o e \o f \o g :
        a \in Optional({GoodDate, DateLine(99, 99, 2024)}),
        b \in Optional({GoodVehicle}),
        c \in Optional({GoodStart, StartLine(1, 25, 99)}),
        d \in Optional({GoodEnd, EndLine(1, 23, 60)}),
        e \in Optional({HoursOnly, HoursMinutes}),
        f \in Optional({GoodKm}),
        g \in Optional({GoodMkad})}

\* the documented order, every required field there; the values vary
ValueInputs ==
    {<<a, GoodVehicle, c, d, e, GoodKm>> \o g :
        a \in {GoodDate, DateLine(29, 2, 2024), DateLine(29, 2, 2023),
               DateLine(31, 4, 2024), DateLine(15, 3, 0)},
        c \in {GoodStart, StartLine(1, 22, 0), StartLine(1, 0, 0)},
        d \in {GoodEnd, EndLine(1, 2, 0), EndLine(1, 8, 0), EndLine(1, 23, 59),
               EndLine(1, 24, 0)},
        e \in {OvertimeLine(1, 0, -1), OvertimeLine(1, 1, 15),
               OvertimeLine(1, 10, 5)},
        g \in Optional({MkadLine(7)})}

\* the documented order; the labels and the spaces after them vary
LabelInputs ==
    {<<GoodDate, VehicleLine(v, n), StartLine(c, 8, 0), EndLine(d, 16, 30),
       OvertimeLine(e, 1, 15), KmLine(f, 120)>> \o g :
        v \in 1..3, n \in 1..MaxGap, c \in 1..2, d \in 1..3, e \in 1..2,
        f \in 1..2, g \in Optional({GoodMkad})}

\* every order of the lines of a well-formed report
OrderInputs ==
    UNION {Orderings(<<GoodDate, GoodVehicle, GoodStart, GoodEnd, e, GoodKm>>) :
              e \in {HoursOnly, HoursMinutes}}

\* every order of the lines of a report that lacks one required field
OneMissingInputs ==
    LET full == <<GoodDate, GoodVehicle, GoodStart, GoodEnd, HoursOnly, GoodKm>>
    IN UNION {Orderings(SubSeq(full, 1, k - 1) \o SubSeq(full, k + 1, 6)) :
                 k \in 1..6}

\* every order of the lines of a report whose vehicle label is followed by
\* spaces only
BlankVehicleInputs ==
    UNION {Orderings(<<GoodDate, BlankVehicle(1, n), GoodStart, GoodEnd,
                       HoursMinutes, GoodKm>>) : n \in 1..MaxGap}

ParseInputs ==
    PresenceInputs \cup ValueInputs \cup LabelInputs \cup OrderInputs
        \cup OneMissingInputs \cup BlankVehicleInputs

\* what the senders of the bot write
BotInputs ==
    {<<GoodDate, GoodVehicle, GoodStart, GoodEnd, HoursMinutes, GoodKm, GoodMkad>>,
     <<GoodVehicle, StartLine(2, 22, 0), EndLine(2, 2, 0), HoursOnly, GoodDate,
       KmLine(2, 7)>>,
     <<GoodDate, GoodVehicle, GoodStart, GoodEnd, HoursOnly>>,
     <<GoodDate, GoodVehicle, StartLine(1, 25, 99), GoodEnd, HoursOnly, GoodKm>>}

Senders == {"s1", "s2"}

(***************************************************************************)
(* The bot                                                                 *)
(***************************************************************************)
NoReply == [ok |-> FALSE, text |-> "", report |-> None]

Idle == [pc |-> "idle", update |-> <<>>, report |-> None, error |-> None,
         reply |-> NoReply]

Received(u) == [Idle EXCEPT !.pc = "received", !.update = u]

\* Python's truth value of error: None and "" are false
Truthy(error) == error # None /\ error[1] # ""

\* the framework hands a text message of sender s to handle_message
Receive(s, u) ==
    /\ handlers[s].pc = "idle"
    /\ Len(handled) + Cardinality({r \in Senders : handlers[r].pc = "received"})
           < MaxMsgs
    /\ handlers' = [handlers EXCEPT ![s] = Received(u)]
    /\ UNCHANGED <<store, outbox, handled>>

\* handle_message up to its await: parse, save, compose the reply
handle_message(s) ==
    /\ handlers[s].pc = "received"
    /\ \E result \in {parse_report(MessageText(handlers[s].update))} :
       LET report == result[1]
           error  == result[2]
       IN /\ handled' = Append(handled, [sender |-> s, update |-> handlers[s].update])
          /\ IF Truthy(error)
             THEN /\ store' = store
                  /\ handlers' = [handlers EXCEPT ![s] =
                        [@ EXCEPT !.pc = "replying", !.report = report,
                                  !.error = error,
                                  !.reply = [ok |-> FALSE, text |-> error[1],
                                             report |-> None]]]
             ELSE IF report = None
             THEN \* save_report(None) raises TypeError: the handler ends
                  /\ store' = store
                  /\ handlers' = [handlers EXCEPT ![s] = Idle]
             ELSE /\ store' = save_report(store, report[1])
                  /\ handlers' = [handlers EXCEPT ![s] =
                        [@ EXCEPT !.pc = "replying", !.report = report,
                                  !.error = error,
                                  !.reply = [ok |-> TRUE, text |-> "",
                                             report |-> Some(format_report(report[1]))]]]
    /\ UNCHANGED outbox

\* as ReplyDone, the report shown read back from the newest row of the
\* store when the reply goes out
ReplyDoneFromStore(s) ==
    /\ handlers[s].pc = "replying"
    /\ outbox' = [outbox EXCEPT ![s] =
          Append(@, IF handlers[s].reply.ok
                    THEN [handlers[s].reply EXCEPT
                            !.report = Some(format_report(store[Len(store)]))]
                    ELSE handlers[s].reply)]
    /\ handlers' = [handlers EXCEPT ![s] = Idle]
    /\ UNCHANGED <<store, handled>>

\* reply_text completes: the reply composed before the await is delivered
ReplyDone(s) ==
    /\ handlers[s].pc = "replying"
    /\ outbox' = [outbox EXCEPT ![s] = Append(@, handlers[s].reply)]
    /\ handlers' = [handlers EXCEPT ![s] = Idle]
    /\ UNCHANGED <<store, handled>>

\* one message, of any of the inputs, waits for handle_message
Init ==
    /\ store = <<>>
    /\ outbox = [s \in Senders |-> <<>>]
    /\ handled = <<>>
    /\ \E u \in ParseInputs :
          handlers = [s \in Senders |-> IF s = "s1" THEN Received(u) ELSE Idle]

Next ==
    \/ \E s \in Senders : handle_message(s)
    \/ \E s \in Senders : ReplyDone(s)

Spec == Init /\ [][Next]_vars

\* the running bot: init_db has created the table, no message has come
InitBot ==
    /\ store = <<>>
    /\ outbox = [s \in Senders |-> <<>>]
    /\ handled = <<>>
    /\ handlers = [s \in Senders |-> Idle]

NextBot ==
    \/ \E s \in Senders, u \in BotInputs : Receive(s, u)
    \/ \E s \in Senders : handle_message(s)
    \/ \E s \in Senders : ReplyDone(s)

SpecBot == InitBot /\ [][NextBot]_vars

(***************************************************************************)
(* What a message says, read off its lines (not off its text)              *)
(***************************************************************************)
Fields   == <<"date", "vehicle", "start", "end", "overtime", "km", "mkad">>
Required == 1..6

Rank(f) == CHOOSE k \in 1..7 : Fields[k] = f

Has(u, f) == \E i \in 1..Len(u) : u[i].f = f

LineOf(u, f) == u[CHOOSE i \in 1..Len(u) : u[i].f = f]

\* the value written on the line is one its field can take
WellFormed(l) ==
    CASE l.f = "date" ->
           l.z >= 1 /\ l.y \in 1..12 /\ l.x >= 1 /\ l.x <= DaysInMonth(l.z, l.y)
      [] l.f = "vehicle" -> l.x = 1
      [] l.f \in {"start", "end"} -> l.x \in 0..23 /\ l.y \in 0..59
      [] OTHER -> TRUE

\* one line per field, every label followed by a value
Documented(u) ==
    /\ \A i, j \in 1..Len(u) : i # j => u[i].f # u[j].f
    /\ \A i \in 1..Len(u) : u[i].f = "vehicle" => u[i].x = 1

Good(u, k) == Has(u, Fields[k]) /\ WellFormed(LineOf(u, Fields[k]))

AllRequiredGood(u) == Documented(u) /\ \A k \in Required : Good(u, k)

\* the first required field, in the order of parse_report, that is absent
\* or whose value does not convert; 0 when there is none
FirstBad(u) ==
    IF \A k \in Required : Good(u, k) THEN 0
    ELSE CHOOSE k \in Required : ~Good(u, k) /\ \A j \in 1..(k - 1) : Good(u, j)

\* the lines of u whose field comes no later than field k
UpTo(u, k) == LET Early(l) == Rank(l.f) <= k IN SelectSeq(u, Early)

\* the lines of u in the order of section 6
RECURSIVE InOrderFrom(_, _)
InOrderFrom(u, k) ==
    IF k > 7 THEN <<>>
    ELSE (LET This(l) == l.f = Fields[k] IN SelectSeq(u, This))
             \o InOrderFrom(u, k + 1)

DocumentedOrder(u) == InOrderFrom(u, 1)

\* handle_message of sender s has parsed its message and not yet replied
Parsed(s) == handlers[s].pc = "replying"

NotFoundTexts ==
    <<"Ne naydena data", "Ne naydeno naimenovanie TS", "Ne naydeno vremya nachala",
      "Ne naydeno vremya okonchaniya", "Ne naydena pererabotka",
      "Ne nayden obshchiy probeg">>

(***************************************************************************)
(* C1: parse_report returns for every text, with exactly one of record and *)
(* error: a record and no error, or no record and a non-empty error text,  *)
(* also when a matched date or time does not convert.  Every message       *)
(* handled therefore reaches its reply.                                    *)
(***************************************************************************)
C1_ExactlyOneSide ==
    \A s \in Senders :
       /\ Parsed(s) =>
            /\ (handlers[s].report = None) # (handlers[s].error = None)
            /\ handlers[s].error # None => handlers[s].error[1] # ""
       /\ Cardinality({i \in 1..Len(handled) : handled[i].sender = s})
             = Len(outbox[s]) + (IF Parsed(s) THEN 1 ELSE 0)

C1_Witness ==
    \E s \in Senders :
       /\ Parsed(s)
       /\ Has(handlers[s].update, "date")
       /\ LineOf(handlers[s].update, "date").x = 99
       /\ handlers[s].report = None
       /\ handlers[s].error = Some("time data does not match format '%d.%m.%Y'")

(***************************************************************************)
(* C2: when exactly one required field is absent and the other five are    *)
(* there with good values, parse_report returns no record and the error    *)
(* text of the absent field.                                               *)
(***************************************************************************)
C2_MissingFieldNamed ==
    \A s \in Senders : \A k \in Required :
       (/\ Parsed(s)
        /\ Documented(handlers[s].update)
        /\ ~Has(handlers[s].update, Fields[k])
        /\ \A j \in Required \ {k} : Good(handlers[s].update, j))
       => /\ handlers[s].report = None
          /\ handlers[s].error = Some(NotFoundTexts[k])

C2_Witness ==
    \E s \in Senders :
       /\ Parsed(s)
       /\ handlers[s].update = <<HoursOnly, GoodDate, GoodKm, GoodStart, GoodEnd>>
       /\ handlers[s].report = None
       /\ handlers[s].error = Some("Ne naydeno naimenovanie TS")

(***************************************************************************)
(* C4: a text of one line per field parses to the same result in every     *)
(* order of its lines.                                                     *)
(***************************************************************************)
C4_OrderIndependent ==
    \A s \in Senders :
       (Parsed(s) /\ Documented(handlers[s].update))
       => <<handlers[s].report, handlers[s].error>>
             = parse_report(MessageText(DocumentedOrder(handlers[s].update)))

(***************************************************************************)
(* C5: the overtime of a record is that of the overtime line alone: h      *)
(* hours when the line gives hours only, h + m/60 when it gives minutes.   *)
(***************************************************************************)
C5_OvertimeFromOwnLine ==
    \A s \in Senders :
       (/\ Parsed(s)
        /\ Documented(handlers[s].update)
        /\ handlers[s].report # None
        /\ Has(handlers[s].update, "overtime"))
       => LET l == LineOf(handlers[s].update, "overtime")
          IN handlers[s].report[1].overtime
                = 60 * l.x + (IF l.y >= 0 THEN l.y ELSE 0)

(***************************************************************************)
(* C6: when every required field is there with a good value, parse_report  *)
(* returns a record whose work_hours is end minus start on the same day,   *)
(* negative when the end is the earlier time.                              *)
(***************************************************************************)
C6_WorkHours ==
    \A s \in Senders :
       (Parsed(s) /\ AllRequiredGood(handlers[s].update))
       => /\ handlers[s].error = None
          /\ handlers[s].report # None
          /\ LET b == LineOf(handlers[s].update, "start")
                 e == LineOf(handlers[s].update, "end")
             IN handlers[s].report[1].work_hours
                   = (60 * e.x + e.y) - (60 * b.x + b.y)

C6_Witness ==
    \E s \in Senders :
       /\ Parsed(s)
       /\ AllRequiredGood(handlers[s].update)
       /\ LineOf(handlers[s].update, "start").x = 22
       /\ LineOf(handlers[s].update, "end").x = 2
       /\ handlers[s].report # None
       /\ handlers[s].report[1].work_hours = -1200

(***************************************************************************)
(* C8: when every required field is there with a good value and there is   *)
(* no MKAD line, parse_report returns a record with km_mkad = 0.           *)
(***************************************************************************)
C8_MkadDefault ==
    \A s \in Senders :
       (/\ Parsed(s)
        /\ AllRequiredGood(handlers[s].update)
        /\ ~Has(handlers[s].update, "mkad"))
       => /\ handlers[s].error = None
          /\ handlers[s].report # None
          /\ handlers[s].report[1].km_mkad = 0

C8_Witness ==
    \E s \in Senders :
       /\ Parsed(s)
       /\ AllRequiredGood(handlers[s].update)
       /\ ~Has(handlers[s].update, "mkad")
       /\ LineOf(handlers[s].update, "km").lab = 2
       /\ handlers[s].report # None
       /\ handlers[s].report[1].km_mkad = 0
       /\ handlers[s].report[1].total_km = 120

(***************************************************************************)
(* C9: the error is decided by the first required field, in the order      *)
(* date, vehicle, start, end, overtime, distance, that is absent or does   *)
(* not convert: its own text when it is absent, a conversion text when it  *)
(* does not convert, and the same error as for the message without the     *)
(* lines of all later fields.                                              *)
(***************************************************************************)
C9_FirstFieldDecides ==
    \A s \in Senders :
       (/\ Parsed(s)
        /\ Documented(handlers[s].update)
        /\ FirstBad(handlers[s].update) # 0)
       => LET u == handlers[s].update
              k == FirstBad(u)
          IN /\ handlers[s].report = None
             /\ handlers[s].error # None
             /\ IF Has(u, Fields[k])
                THEN \A j \in Required : handlers[s].error[1] # NotFoundTexts[j]
                ELSE handlers[s].error[1] = NotFoundTexts[k]
             /\ handlers[s].error = parse_report(MessageText(UpTo(u, k)))[2]

C9_Witness ==
    \E s \in Senders :
       /\ Parsed(s)
       /\ handlers[s].update = <<GoodDate, GoodVehicle, StartLine(1, 25, 99)>>
       /\ handlers[s].error = Some("time data does not match format '%H:%M'")

(***************************************************************************)
(* C10: no record, returned or stored, has an empty vehicle: a vehicle     *)
(* label followed by whitespace only never yields a record.                *)
(***************************************************************************)
C10_VehicleNeverEmpty ==
    /\ \A i \in 1..Len(store) : store[i].vehicle # <<>>
    /\ \A s \in Senders :
          (Parsed(s) /\ handlers[s].report # None)
          => handlers[s].report[1].vehicle # <<>>

(***************************************************************************)
(* C3: the store holds one row per message that parsed, each with a fresh  *)
(* identifier (the same good report sent twice gives two rows), and a      *)
(* message that does not parse adds none.                                  *)
(***************************************************************************)
C3_RowPerParsedMessage ==
    /\ Len(store)
          = Cardinality({i \in 1..Len(handled) : AllRequiredGood(handled[i].update)})
    /\ \A i \in 1..Len(store) : store[i].id = i

C3_Witness ==
    /\ Len(handled) = 3
    /\ handled[1].update = handled[3].update
    /\ AllRequiredGood(handled[1].update)
    /\ ~AllRequiredGood(handled[2].update)
    /\ Len(store) = 2
    /\ store[1].id # store[2].id
    /\ [store[1] EXCEPT !.id = 0] = [store[2] EXCEPT !.id = 0]

(***************************************************************************)
(* C7: however the handlers of the two senders interleave, the rows of     *)
(* the store are the records of the good messages, in the order they were  *)
(* handled, and every reply delivered to a sender is the outcome of that   *)
(* sender's own message: its own record, or its own error.                 *)
(***************************************************************************)
OutcomeOf(result) ==
    IF result[2] # None
    THEN [ok |-> FALSE, text |-> result[2][1], report |-> None]
    ELSE [ok |-> TRUE, text |-> "", report |-> Some(format_report(result[1][1]))]

RowOf(row, result) ==
    result[1] # None /\ [f \in DOMAIN result[1][1] |-> row[f]] = result[1][1]

\* parse_report of each text the senders write
ParsedBotInput == [u \in BotInputs |-> parse_report(MessageText(u))]

RowsAre(good) ==
    /\ Len(store) = Len(good)
    /\ \A i \in 1..Len(good) : RowOf(store[i], ParsedBotInput[good[i].update])

RepliesAre(s, mine, done) ==
    /\ Len(outbox[s]) = done
    /\ \A i \in 1..done : outbox[s][i] = OutcomeOf(ParsedBotInput[mine[i].update])

C7_OwnOutcome ==
    /\ LET IsGood(h) == AllRequiredGood(h.update)
       IN RowsAre(SelectSeq(handled, IsGood))
    /\ \A s \in Senders :
          LET Mine(h) == h.sender = s
              mine == SelectSeq(handled, Mine)
          IN RepliesAre(s, mine, Len(mine) - (IF Parsed(s) THEN 1 ELSE 0))

\* s1 waits at its reply while the message of s2 is handled and answered
C7_Witness ==
    /\ Len(handled) >= 2
    /\ handled[1].sender = "s1" /\ AllRequiredGood(handled[1].update)
    /\ handled[2].sender = "s2" /\ AllRequiredGood(handled[2].update)
    /\ handled[1].update # handled[2].update
    /\ Parsed("s1") /\ Len(outbox["s1"]) = 0
    /\ Len(outbox["s2"]) = 1 /\ outbox["s2"][1].ok
    /\ Len(store) = 2

=============================================================================
